---- MODULE Spec2Model ----
(***************************************************************************)
(* A model of cov2html (src/src/coverage.rs, src/src/main.rs): the parser  *)
(* of the coverage record, the per-file aggregation, the construction of   *)
(* the directory tree, its recursive rendering and the embedding of the    *)
(* source lines in the generated document.                                 *)
(*                                                                         *)
(* Strings are sequences of one-character strings (a few letter groups     *)
(* that are never special, such as "script", are kept as one element).     *)
(***************************************************************************)
EXTENDS Integers, Sequences, FiniteSets, TLC

(***************************************************************************)
(* Bounds of the model                                                     *)
(***************************************************************************)
\* number of lines of a coverage text in SpecParse
MaxTextLines == 3
\* largest percentage classified in SpecTier, in hundredths of a percent
MaxPct == 10100
\* nesting of render_combined_tree at which the stack is taken to be exhausted
MaxDepth == 4
\* number of paths in a coverage record of Spec
MaxFiles == 2
\* largest line number in a coverage record of Spec
MaxLineNo == 2
\* number of elements of a source line in SpecEscape
MaxLineLen == 4

(***************************************************************************)
(* Strings                                                                 *)
(***************************************************************************)
\* Characters in ascending byte order, as Rust's str comparison sees them.
Alphabet == <<" ", "+", "-", ".", "/", "0", "1", "2", "3", "4", "5", "6", "7", "8", "9", ":", "_", "a", "b", "d", "e", "x">>

Ord(c) == CHOOSE i \in 1..Len(Alphabet) : Alphabet[i] = c

Digits == <<"0", "1", "2", "3", "4", "5", "6", "7", "8", "9">>

IsDigit(c) == \E i \in 1..10 : Digits[i] = c

DigitVal(c) == (CHOOSE i \in 1..10 : Digits[i] = c) - 1

\* char::is_whitespace, for the characters of the model
IsWhitespace(c) == c \in {" ", "\t"}

RECURSIVE TrimStart(_)
TrimStart(s) == IF s # <<>> /\ IsWhitespace(Head(s)) THEN TrimStart(Tail(s)) ELSE s

RECURSIVE TrimEnd(_)
TrimEnd(s) == IF s # <<>> /\ IsWhitespace(s[Len(s)]) THEN TrimEnd(SubSeq(s, 1, Len(s) - 1)) ELSE s

\* str::trim
Trim(s) == TrimEnd(TrimStart(s))

\* str::split(sep): the parts between the separators, empty parts kept;
\* the empty string splits into one empty part.
RECURSIVE SplitFrom(_, _, _, _)
SplitFrom(s, sep, i, cur) ==
    IF i > Len(s) THEN <<cur>>
    ELSE IF s[i] = sep THEN <<cur>> \o SplitFrom(s, sep, i + 1, <<>>)
    ELSE SplitFrom(s, sep, i + 1, Append(cur, s[i]))

Split(s, sep) == SplitFrom(s, sep, 1, <<>>)

\* Ordering of str (lexicographic on bytes): a < b
RECURSIVE StrLess(_, _)
StrLess(a, b) ==
    IF b = <<>> THEN FALSE
    ELSE IF a = <<>> THEN TRUE
    ELSE IF Head(a) = Head(b) THEN StrLess(Tail(a), Tail(b))
    ELSE Ord(Head(a)) < Ord(Head(b))

(***************************************************************************)
(* parse_coverage_file                                                     *)
(***************************************************************************)
\* A u32 is kept as two 16-bit limbs <<hi, lo>> (value hi * 65536 + lo): the
\* integers of the checker are narrower than 32 bits unsigned.
LimbBase == 65536

U32(n) == <<n \div LimbBase, n % LimbBase>>

\* checked_mul(10) and checked_add(digit) of u32::from_str, on the limbs
RECURSIVE ParseDigits(_, _)
ParseDigits(s, acc) ==
    IF s = <<>> THEN [ok |-> TRUE, val |-> acc]
    ELSE IF ~IsDigit(Head(s)) THEN [ok |-> FALSE, val |-> U32(0)]
    ELSE LET lo == acc[2] * 10 + DigitVal(Head(s))
             hi == acc[1] * 10 + (lo \div LimbBase)
         IN  IF hi >= LimbBase THEN [ok |-> FALSE, val |-> U32(0)]
             ELSE ParseDigits(Tail(s), <<hi, lo % LimbBase>>)

\* str::parse::<u32>: an optional '+', then at least one digit, no overflow
ParseU32(s) ==
    LET t == IF s # <<>> /\ Head(s) = "+" THEN Tail(s) ELSE s
    IN  IF t = <<>> THEN [ok |-> FALSE, val |-> U32(0)] ELSE ParseDigits(t, U32(0))

\* HashMap entry(path).or_insert_with(HashSet::new).insert(n)
MapInsert(map, path, n) ==
    IF path \in DOMAIN map
    THEN [map EXCEPT ![path] = @ \cup {n}]
    ELSE [p \in DOMAIN map \cup {path} |-> IF p = path THEN {n} ELSE map[p]]

\* ParseLine with the part-count test weakened to "fewer than two parts"
ParseLineAtLeastTwo(st, line) ==
    IF Trim(line) = <<>> THEN st
    ELSE LET parts == Split(line, ":")
         IN  IF Len(parts) < 2
             THEN [st EXCEPT !.warnings = @ + 1]
             ELSE LET num == ParseU32(Trim(parts[2]))
                  IN  IF ~num.ok
                      THEN [st EXCEPT !.warnings = @ + 1]
                      ELSE [st EXCEPT !.map = MapInsert(@, parts[1], num.val)]

\* One iteration of the loop over the lines: the map and the number of
\* warnings after the line.
ParseLine(st, line) ==
    IF Trim(line) = <<>> THEN st
    ELSE LET parts == Split(line, ":")
         IN  IF Len(parts) # 2
             THEN [st EXCEPT !.warnings = @ + 1]
             ELSE LET num == ParseU32(Trim(parts[2]))
                  IN  IF ~num.ok
                      THEN [st EXCEPT !.warnings = @ + 1]
                      ELSE [st EXCEPT !.map = MapInsert(@, parts[1], num.val)]

EmptyMap == [p \in {} |-> {}]

\* the whole loop, for a text all of whose lines can be read
RECURSIVE ParseFrom(_, _, _)
ParseFrom(st, lines, i) ==
    IF i > Len(lines) THEN st ELSE ParseFrom(ParseLine(st, lines[i]), lines, i + 1)

ParseCoverage(lines) == ParseFrom([map |-> EmptyMap, warnings |-> 0], lines, 1)

\* The lines a coverage text of SpecParse is made of.
TextLines ==
    { <<"a", ":", "1">>,
      <<"a", ":", " ", "2", " ">>,
      <<"d", "/", "b", ":", "1">>,
      <<"a", ":", "+", "1">>,
      <<"a", ":", "0">>,
      <<"a", ":", "4", "2", "9", "4", "9", "6", "7", "2", "9", "5">>,
      <<"a", ":", "4", "2", "9", "4", "9", "6", "7", "2", "9", "6">>,
      <<>>,
      <<" ", "\t">>,
      <<"b", "a", "d">>,
      <<"a", ":", "b", ":", "1">>,
      <<"x", ":", "3", ":", "1">>,
      <<"x", ":", "a">>,
      <<"x", ":", "-", "1">>,
      <<"x", ":">>,
      <<"x", ":", "1", " ", "2">>,
      <<":", "3">> }

VARIABLES
    p_text,      \* the lines of the coverage file
    p_pc,        \* "open", "loop", "done"
    p_idx,       \* number of lines consumed
    p_map,       \* coverage_map
    p_warnings,  \* warnings printed
    p_io,        \* "none", or the I/O failure met: "open", "read"
    p_result     \* "none", "ok", "err"

parseVars == <<p_text, p_pc, p_idx, p_map, p_warnings, p_io, p_result>>

VARIABLES
    t_pct,       \* a percentage <<n, 100>>, n hundredths of a percent
    t_rust,      \* the class get_coverage_class gave it, or "none"
    t_js         \* the class getCoverageClass gave it, or "none"

tierVars == <<t_pct, t_rust, t_js>>

VARIABLES
    r_text,         \* the lines of the coverage file
    r_src,          \* the source tree below kernel_src_dir
    r_pc,           \* where the run is
    coverage_map,   \* path |-> covered line numbers
    todo,           \* keys of coverage_map the loop has not reached
    agg,            \* file_tree, total_covered, total_lines, file_data, skipped
    r_tree,         \* parent path |-> child list
    doc,            \* what has been written to coverage_report.html
    calls,          \* the recursive calls of render_combined_tree
    io_fail,        \* "none", or the operation that failed
    result,         \* "none", "ok", "err", "panic", "overflow"
    printed         \* what main printed: "none", "success", "error"

runVars == <<r_text, r_src, r_pc, coverage_map, todo, agg, r_tree, doc, calls, io_fail,
             result, printed>>

VARIABLES
    e_line,       \* a line of a source file
    e_pc,         \* "source", "embedded", "parsed", "read", "encoded", "shown", "broken"
    e_literal,    \* the text written between the quotes of the literal
    e_value,      \* the string the script holds for the line
    e_html,       \* what displaySourceSafely returns
    e_shown       \* the text the line-content element displays

escVars == <<e_line, e_pc, e_literal, e_value, e_html, e_shown>>

vars == <<parseVars, tierVars, runVars, escVars>>

EscIdle ==
    /\ e_line = <<>> /\ e_pc = "idle" /\ e_literal = <<>> /\ e_value = <<>>
    /\ e_html = <<>> /\ e_shown = <<>>

notParse == <<tierVars, runVars, escVars>>

notTier == <<parseVars, runVars, escVars>>

notRun == <<parseVars, tierVars, escVars>>

notEsc == <<parseVars, tierVars, runVars>>

EmptyAgg == [file_tree |-> <<>>, total_covered |-> 0, total_lines |-> 0, file_data |-> <<>>,
             skipped |-> {}]

EmptyDoc == [summary |-> <<>>, sidebar |-> <<>>, containers |-> <<>>, fileData |-> <<>>,
             closed |-> FALSE]

RunIdle ==
    /\ r_text = <<>> /\ r_src = <<>> /\ r_pc = "idle" /\ coverage_map = <<>> /\ todo = {}
    /\ agg = EmptyAgg /\ r_tree = <<>> /\ doc = EmptyDoc /\ calls = <<>>
    /\ io_fail = "none" /\ result = "none" /\ printed = "none"

ParseIdle ==
    /\ p_text = <<>> /\ p_pc = "idle" /\ p_idx = 0 /\ p_map = <<>>
    /\ p_warnings = 0 /\ p_io = "none" /\ p_result = "none"

TierIdle == t_pct = <<0, 1>> /\ t_rust = "none" /\ t_js = "none"

RECURSIVE SeqsUpTo(_, _)
SeqsUpTo(S, n) ==
    IF n = 0 THEN {<<>>}
    ELSE LET shorter == SeqsUpTo(S, n - 1)
         IN  shorter \cup {Append(s, x) : s \in {t \in shorter : Len(t) = n - 1}, x \in S}

ParseInit ==
    /\ TierIdle /\ RunIdle /\ EscIdle
    /\ p_text \in SeqsUpTo(TextLines, MaxTextLines)
    /\ p_pc = "open"
    /\ p_idx = 0
    /\ p_map = EmptyMap
    /\ p_warnings = 0
    /\ p_io = "none"
    /\ p_result = "none"

\* File::open(file_path)?
ParseOpen ==
    /\ p_pc = "open"
    /\ \E ok \in BOOLEAN :
         IF ok THEN p_pc' = "loop" /\ UNCHANGED <<p_io, p_result>>
         ELSE p_pc' = "done" /\ p_io' = "open" /\ p_result' = "err"
    /\ UNCHANGED notParse
    /\ UNCHANGED <<p_text, p_idx, p_map, p_warnings>>

\* let line = line?; ... one iteration of the loop body
ParseLoop ==
    /\ p_pc = "loop"
    /\ p_idx < Len(p_text)
    /\ LET st == ParseLine([map |-> p_map, warnings |-> p_warnings], p_text[p_idx + 1])
       IN  p_map' = st.map /\ p_warnings' = st.warnings
    /\ p_idx' = p_idx + 1
    /\ UNCHANGED notParse
    /\ UNCHANGED <<p_text, p_pc, p_io, p_result>>

\* line? when the read fails (an I/O error, or bytes that are no UTF-8)
ParseReadError ==
    /\ p_pc = "loop"
    /\ p_idx < Len(p_text)
    /\ p_pc' = "done"
    /\ p_io' = "read"
    /\ p_result' = "err"
    /\ UNCHANGED notParse
    /\ UNCHANGED <<p_text, p_idx, p_map, p_warnings>>

\* Ok(coverage_map)
ParseReturn ==
    /\ p_pc = "loop"
    /\ p_idx = Len(p_text)
    /\ p_pc' = "done"
    /\ p_result' = "ok"
    /\ UNCHANGED notParse
    /\ UNCHANGED <<p_text, p_idx, p_map, p_warnings, p_io>>

ParseNext == ParseOpen \/ ParseLoop \/ ParseReadError \/ ParseReturn

SpecParse == ParseInit /\ [][ParseNext]_vars

(***************************************************************************)
(* C1: what the parser keeps                                               *)
(***************************************************************************)
ColonPositions(line) == {i \in 1..Len(line) : line[i] = ":"}

BeforeColon(line) == SubSeq(line, 1, (CHOOSE i \in ColonPositions(line) : TRUE) - 1)

AfterColon(line) == SubSeq(line, (CHOOSE i \in ColonPositions(line) : TRUE) + 1, Len(line))

IsBlankLine(line) == \A i \in 1..Len(line) : IsWhitespace(line[i])

RECURSIVE StripZeros(_)
StripZeros(s) == IF Len(s) > 1 /\ Head(s) = "0" THEN StripZeros(Tail(s)) ELSE s

U32MaxDigits == <<"4", "2", "9", "4", "9", "6", "7", "2", "9", "5">>

\* a decimal numeral of a u32: an optional '+', digits only, at most u32::MAX
IsNumeral(s) ==
    LET t == IF s # <<>> /\ Head(s) = "+" THEN Tail(s) ELSE s
        z == StripZeros(t)
    IN  /\ t # <<>>
        /\ \A i \in 1..Len(t) : IsDigit(t[i])
        /\ \/ Len(z) < Len(U32MaxDigits)
           \/ Len(z) = Len(U32MaxDigits) /\ ~StrLess(U32MaxDigits, z)

WellFormed(line) ==
    /\ ~IsBlankLine(line)
    /\ Cardinality(ColonPositions(line)) = 1
    /\ IsNumeral(Trim(AfterColon(line)))

\* the number a numeral denotes, limb by limb, from its last digit on
RECURSIVE NumeralValue(_)
NumeralValue(s) ==
    IF s = <<>> \/ s = <<"+">> THEN U32(0)
    ELSE LET rest == NumeralValue(SubSeq(s, 1, Len(s) - 1))
             lo   == rest[2] * 10 + DigitVal(s[Len(s)])
         IN  <<rest[1] * 10 + (lo \div LimbBase), lo % LimbBase>>

WellFormedPairs(text, n) ==
    {<<BeforeColon(text[i]), NumeralValue(Trim(AfterColon(text[i])))>> :
        i \in {j \in 1..n : WellFormed(text[j])}}

ExpectedMap(text, n) ==
    LET pairs == WellFormedPairs(text, n)
    IN  [p \in {pr[1] : pr \in pairs} |-> {pr[2] : pr \in {q \in pairs : q[1] = p}}]

\* C1: after any number of lines, and at the return, the map holds exactly
\* the (path, line) pairs of the well-formed lines read so far, duplicates
\* collapsed and repeated paths accumulated into one set; a malformed or a
\* blank line changes nothing, and unless the file cannot be opened or read
\* the parse returns Ok.
C1_ParseKeepsWellFormed ==
    /\ p_io = "none" => p_map = ExpectedMap(p_text, p_idx)
    /\ (p_pc = "done" /\ p_io = "none") => (p_result = "ok" /\ p_idx = Len(p_text))
    /\ p_result = "err" => p_io # "none"

\* a returned parse of a text with a malformed line between two well-formed
\* lines of one path
C1_Witness ==
    /\ p_pc = "done" /\ p_result = "ok"
    /\ Len(p_text) = 3
    /\ WellFormed(p_text[1]) /\ WellFormed(p_text[3])
    /\ ~WellFormed(p_text[2]) /\ ~IsBlankLine(p_text[2])
    /\ \E p \in DOMAIN p_map : Cardinality(p_map[p]) = 2

(***************************************************************************)
(* Coverage classes.  A percentage (an f64 in the code) is kept as a       *)
(* fraction <<numerator, denominator>>.                                    *)
(***************************************************************************)
\* percentage >= n
AtLeast(percentage, n) == percentage[1] >= n * percentage[2]

\* percentage > n
Above(percentage, n) == percentage[1] > n * percentage[2]

\* get_coverage_class with > in place of >= at the upper threshold
get_coverage_class_strict(percentage) ==
    IF Above(percentage, 80) THEN "coverage-good"
    ELSE IF AtLeast(percentage, 50) THEN "coverage-medium"
    ELSE "coverage-bad"

\* fn get_coverage_class(percentage: f64) -> &'static str
get_coverage_class(percentage) ==
    IF AtLeast(percentage, 80) THEN "coverage-good"
    ELSE IF AtLeast(percentage, 50) THEN "coverage-medium"
    ELSE "coverage-bad"

\* function getCoverageClass(percentage), written into the document
getCoverageClass(percentage) ==
    IF AtLeast(percentage, 80) THEN "coverage-good"
    ELSE IF AtLeast(percentage, 50) THEN "coverage-medium"
    ELSE "coverage-bad"

TierInit ==
    /\ ParseIdle /\ RunIdle /\ EscIdle
    /\ t_pct \in {<<n, 100>> : n \in 0..MaxPct}
    /\ t_rust = "none"
    /\ t_js = "none"

\* the generator classifies the figure (summary, tree badge)
ClassifyRust ==
    /\ t_rust = "none"
    /\ t_rust' = get_coverage_class(t_pct)
    /\ UNCHANGED notTier
    /\ UNCHANGED <<t_pct, t_js>>

\* the document's script classifies the figure (per-file header)
ClassifyJs ==
    /\ t_js = "none"
    /\ t_js' = getCoverageClass(t_pct)
    /\ UNCHANGED notTier
    /\ UNCHANGED <<t_pct, t_rust>>

TierNext == ClassifyRust \/ ClassifyJs

SpecTier == TierInit /\ [][TierNext]_vars

\* C8: the class is good iff p >= 80, medium iff 50 <= p < 80, bad iff
\* p < 50 (80 is good, 50 is medium), and the function of the generator
\* and the function written into the document give the same class.
C8_TierClassification ==
    /\ t_rust # "none" =>
          /\ (t_rust = "coverage-good") <=> (t_pct[1] >= 8000)
          /\ (t_rust = "coverage-medium") <=> (5000 <= t_pct[1] /\ t_pct[1] < 8000)
          /\ (t_rust = "coverage-bad") <=> (t_pct[1] < 5000)
    /\ (t_rust # "none" /\ t_js # "none") => t_rust = t_js

\* exactly 80 classified by both functions
C8_Witness == t_pct = <<8000, 100>> /\ t_rust = "coverage-good" /\ t_js = "coverage-good"

(***************************************************************************)
(* The source tree and the paths of the record                             *)
(***************************************************************************)
\* str::lines: the pieces between the '\n', the '\r' of a "\r\n" dropped, no
\* last piece for the text after the last '\n' when it is empty
StripCr(l) == IF l # <<>> /\ l[Len(l)] = "\r" THEN SubSeq(l, 1, Len(l) - 1) ELSE l

Lines(content) ==
    LET parts == Split(content, "\n")
        kept  == IF parts[Len(parts)] = <<>> THEN SubSeq(parts, 1, Len(parts) - 1) ELSE parts
    IN  [i \in 1..Len(kept) |-> IF i < Len(parts) THEN StripCr(kept[i]) ELSE kept[i]]

\* the non-empty segments of a path: the file the operating system finds for
\* it below the source root (no segment of the model is "." or "..")
Resolve(path) == SelectSeq(Split(path, "/"), LAMBDA seg : seg # <<>>)

EndsWithSlash(path) == path # <<>> /\ path[Len(path)] = "/"

IsProperPrefix(a, b) == Len(a) < Len(b) /\ SubSeq(b, 1, Len(a)) = a

\* a source tree: resolved file |-> [readable, text]
IsFile(src, path) == Resolve(path) \in DOMAIN src /\ ~EndsWithSlash(path)

IsDirectory(src, path) == \E f \in DOMAIN src : IsProperPrefix(Resolve(path), f)

\* Path::new(&full_path).exists()
PathExists(src, path) == IsFile(src, path) \/ IsDirectory(src, path)

\* fs::read_to_string(&full_path) is Ok
ReadOk(src, path) == IsFile(src, path) /\ src[Resolve(path)].readable

ReadToString(src, path) == src[Resolve(path)].text

(***************************************************************************)
(* Percentages: the f64 (c / t) * 100.0 is kept as the fraction            *)
(* <<100 * c, t>>; comparisons with 80.0 and 50.0 and the rounding to one  *)
(* decimal are those of the exact value.                                   *)
(***************************************************************************)
CoveragePct(covered, total) == IF total > 0 THEN <<100 * covered, total>> ELSE <<0, 1>>

\* format!("{:.1}"): tenths of a percent, ties to even
FormatPct1(pct) ==
    LET q == (10 * pct[1]) \div pct[2]
        r == (10 * pct[1]) % pct[2]
    IN  IF 2 * r < pct[2] THEN q
        ELSE IF 2 * r > pct[2] THEN q + 1
        ELSE IF q % 2 = 0 THEN q ELSE q + 1

(***************************************************************************)
(* build_file_tree_entries, build_directory_tree                           *)
(***************************************************************************)
Put(f, k, v) == [x \in DOMAIN f \cup {k} |-> IF x = k THEN v ELSE f[x]]

\* HashMap::entry(k).or_insert(v)
OrInsert(f, k, v) == IF k \in DOMAIN f THEN f ELSE Put(f, k, v)

\* the loop of build_file_tree_entries from component i on, current_path
\* holding the components before it
RECURSIVE FileTreeLoop(_, _, _, _, _, _)
FileTreeLoop(components, i, current_path, covered_lines, total_lines, file_tree) ==
    IF i > Len(components) THEN file_tree
    ELSE LET path == (IF i > 1 THEN Append(current_path, "/") ELSE current_path) \o components[i]
         IN  IF i = Len(components)
             THEN Put(file_tree, path, <<covered_lines, total_lines>>)
             ELSE FileTreeLoop(components, i + 1, path, covered_lines, total_lines,
                               OrInsert(file_tree, path, <<0, 0>>))

build_file_tree_entries(file_path, covered_lines, total_lines, file_tree) ==
    FileTreeLoop(Split(file_path, "/"), 1, <<>>, covered_lines, total_lines, file_tree)

\* s[..s.rfind('/').unwrap_or(0)]
BeforeLastSlash(s) ==
    LET at == {i \in 1..Len(s) : s[i] = "/"}
    IN  IF at = {} THEN <<>>
        ELSE SubSeq(s, 1, (CHOOSE i \in at : \A j \in at : j <= i) - 1)

\* components[0..=i] joined by '/', as parent_path is built
RECURSIVE JoinUpTo(_, _)
JoinUpTo(components, n) ==
    IF n = 0 THEN <<>>
    ELSE IF n = 1 THEN components[1]
    ELSE Append(JoinUpTo(components, n - 1), "/") \o components[n]

\* the inner loop of build_directory_tree: an empty child list for the
\* parent of every component but the last
RECURSIVE ParentDirsLoop(_, _, _)
ParentDirsLoop(components, i, tree) ==
    IF i >= Len(components) THEN tree
    ELSE LET parent_dir == IF i = 1 THEN <<>> ELSE BeforeLastSlash(JoinUpTo(components, i))
         IN  ParentDirsLoop(components, i + 1, OrInsert(tree, parent_dir, <<>>))

\* one iteration of the outer loop that puts every entry into the list of
\* the root
DirectoryTreeEntryAtRoot(tree, path, stat) ==
    LET components == Split(path, "/")
        t1     == ParentDirsLoop(components, 1, tree)
        t2     == OrInsert(t1, <<>>, <<>>)
    IN  [t2 EXCEPT ![<<>>] = Append(@, <<path, stat[1], stat[2]>>)]

\* one iteration of the outer loop of build_directory_tree
DirectoryTreeEntry(tree, path, stat) ==
    LET components == Split(path, "/")
        t1     == ParentDirsLoop(components, 1, tree)
        parent == IF Len(components) > 1 THEN BeforeLastSlash(path) ELSE <<>>
        t2     == OrInsert(t1, parent, <<>>)
    IN  [t2 EXCEPT ![parent] = Append(@, <<path, stat[1], stat[2]>>)]

\* build_directory_tree, the table iterated in the given order of its keys
RECURSIVE DirectoryTreeLoop(_, _, _, _)
DirectoryTreeLoop(file_tree, order, i, tree) ==
    IF i > Len(order) THEN tree
    ELSE DirectoryTreeLoop(file_tree, order, i + 1,
                           DirectoryTreeEntry(tree, order[i], file_tree[order[i]]))

build_directory_tree(file_tree, order) == DirectoryTreeLoop(file_tree, order, 1, <<>>)

(***************************************************************************)
(* render_combined_tree                                                    *)
(***************************************************************************)
\* the stable insertion of <<name, value>> into a sequence sorted by name
RECURSIVE InsertSorted(_, _)
InsertSorted(sorted, x) ==
    IF sorted = <<>> THEN <<x>>
    ELSE IF StrLess(x[1], sorted[Len(sorted)][1])
         THEN Append(InsertSorted(SubSeq(sorted, 1, Len(sorted) - 1), x), sorted[Len(sorted)])
         ELSE Append(sorted, x)

RECURSIVE SortFrom(_, _, _)
SortFrom(seq, i, acc) ==
    IF i > Len(seq) THEN acc ELSE SortFrom(seq, i + 1, InsertSorted(acc, seq[i]))

\* a stable sort, by name, of the values of a sequence
SortByName(seq, name(_)) ==
    LET keyed  == [i \in 1..Len(seq) |-> <<name(seq[i]), seq[i]>>]
        sorted == SortFrom(keyed, 1, <<>>)
    IN  [i \in 1..Len(seq) |-> sorted[i][2]]

\* the names left in the order of the child list
KeepOrder(dirs) == dirs

\* dirs.sort()
SortDirs(dirs) == SortByName(dirs, LAMBDA d : d)

\* files.sort_by(|a, b| a.1.cmp(b.1))
SortFiles(files) == SortByName(files, LAMBDA f : f[2])

Range(seq) == {seq[i] : i \in 1..Len(seq)}

Contains(s, c) == \E i \in 1..Len(s) : s[i] = c

\* path.split('/').last()
LastSegment(path) == LET parts == Split(path, "/") IN parts[Len(parts)]

\* the first loop of render_combined_tree: the names taken as directories
RECURSIVE DirsOf(_, _, _)
DirsOf(children, i, current_path) ==
    IF i > Len(children) THEN <<>>
    ELSE LET path == children[i][1]
             name == IF current_path = <<>> THEN path
                     ELSE SubSeq(path, Len(current_path) + 2, Len(path))
             rest == DirsOf(children, i + 1, current_path)
         IN  IF children[i][3] = 0 /\ ~Contains(name, "/") THEN <<name>> \o rest ELSE rest

\* the first loop of render_combined_tree: (index, name, covered, total) of
\* the children taken as files
RECURSIVE FilesOf(_, _)
FilesOf(children, i) ==
    IF i > Len(children) THEN <<>>
    ELSE LET rest == FilesOf(children, i + 1)
         IN  IF children[i][3] = 0 THEN rest
             ELSE <<<<i - 1, LastSegment(children[i][1]), children[i][2], children[i][3]>>>> \o rest

\* path.replace("/", "_").replace(".", "_")
FileId(path) == [i \in 1..Len(path) |-> IF path[i] \in {"/", "."} THEN "_" ELSE path[i]]

ChildPath(current_path, name) ==
    IF current_path = <<>> THEN name ELSE Append(current_path, "/") \o name

\* the entry written for a file
FileItem(current_path, f) ==
    LET coverage_pct == CoveragePct(f[3], f[4])
    IN  [kind |-> "file", name |-> f[2], expanded |-> FALSE, children |-> <<>>,
         id |-> FileId(ChildPath(current_path, f[2])),
         class |-> get_coverage_class(coverage_pct),
         pct |-> FormatPct1(coverage_pct), covered |-> f[3], total |-> f[4]]

\* the entry written for a directory, around what the recursive call wrote
DirItem(name, level, children) ==
    [kind |-> "dir", name |-> name, expanded |-> (level = 0), children |-> children,
     id |-> <<>>, class |-> "", pct |-> 0, covered |-> 0, total |-> 0]

\* What a call writes (items), the recursive calls made below it
\* (<<caller's path, callee's path>>, in the order made), and whether the
\* nesting passed MaxDepth.
RECURSIVE render_combined_tree(_, _, _)
RECURSIVE RenderDirs(_, _, _, _, _)
RenderDirs(tree, current_path, dirs, k, level) ==
    IF k > Len(dirs) THEN [items |-> <<>>, calls |-> <<>>, overflow |-> FALSE]
    ELSE LET full_path == ChildPath(current_path, dirs[k])
             call == <<current_path, full_path>>
             sub  == render_combined_tree(tree, full_path, level + 1)
         IN  IF sub.overflow
             THEN [items |-> <<DirItem(dirs[k], level, sub.items)>>,
                   calls |-> <<call>> \o sub.calls,
                   overflow |-> TRUE]
             ELSE LET rest == RenderDirs(tree, current_path, dirs, k + 1, level)
                  IN  [items |-> <<DirItem(dirs[k], level, sub.items)>> \o rest.items,
                       calls |-> <<call>> \o sub.calls \o rest.calls,
                       overflow |-> rest.overflow]

render_combined_tree(tree, current_path, level) ==
    IF level > MaxDepth
    THEN [items |-> <<>>, calls |-> <<>>, overflow |-> TRUE]
    ELSE IF current_path \notin DOMAIN tree
    THEN [items |-> <<>>, calls |-> <<>>, overflow |-> FALSE]
    ELSE LET children == tree[current_path]
             dirs  == SortDirs(DirsOf(children, 1, current_path))
             files == SortFiles(FilesOf(children, 1))
             sub   == RenderDirs(tree, current_path, dirs, 1, level)
         IN  [items |-> IF sub.overflow THEN sub.items
                        ELSE sub.items \o [i \in 1..Len(files) |-> FileItem(current_path, files[i])],
              calls |-> sub.calls,
              overflow |-> sub.overflow]

(***************************************************************************)
(* generate_combined_html: the loop over the coverage map                  *)
(***************************************************************************)
\* line.replace("\\", "\\\\").replace("\"", "\\\"")
RECURSIVE ReplaceChar(_, _, _)
ReplaceChar(s, c, with) ==
    IF s = <<>> THEN <<>>
    ELSE (IF Head(s) = c THEN with ELSE <<Head(s)>>) \o ReplaceChar(Tail(s), c, with)

EscapeLiteral(line) == ReplaceChar(ReplaceChar(line, "\\", <<"\\", "\\">>), "\"", <<"\\", "\"">>)

\* the loop body with covered_count clipped to the lines of the file
AggregateEntryClipped(st, file_path, covered_lines, src) ==
    IF ~PathExists(src, file_path) \/ ~ReadOk(src, file_path)
    THEN [st EXCEPT !.skipped = @ \cup {file_path}]
    ELSE LET source_content == ReadToString(src, file_path)
             file_total_lines == Len(Lines(source_content))
             file_covered_lines ==
                 Cardinality({n \in covered_lines : n[1] = 0 /\ n[2] <= file_total_lines})
         IN  [st EXCEPT
                !.total_covered = @ + file_covered_lines,
                !.total_lines = @ + file_total_lines,
                !.file_tree = build_file_tree_entries(file_path, file_covered_lines,
                                                      file_total_lines, @),
                !.file_data = Append(@, [path |-> file_path, source |-> source_content,
                                         covered |-> covered_lines,
                                         covered_count |-> file_covered_lines,
                                         total_lines |-> file_total_lines,
                                         coverage_pct |-> CoveragePct(file_covered_lines,
                                                                      file_total_lines)])]

\* the loop body with a file that is not found entered with no lines
AggregateEntryKeepMissing(st, file_path, covered_lines, src) ==
    IF ~PathExists(src, file_path) \/ ~ReadOk(src, file_path)
    THEN [st EXCEPT !.skipped = @ \cup {file_path},
                    !.file_tree = build_file_tree_entries(file_path, 0, 0, @)]
    ELSE LET source_content == ReadToString(src, file_path)
             file_total_lines == Len(Lines(source_content))
             file_covered_lines == Cardinality(covered_lines)
         IN  [st EXCEPT
                !.total_covered = @ + file_covered_lines,
                !.total_lines = @ + file_total_lines,
                !.file_tree = build_file_tree_entries(file_path, file_covered_lines,
                                                      file_total_lines, @),
                !.file_data = Append(@, [path |-> file_path, source |-> source_content,
                                         covered |-> covered_lines,
                                         covered_count |-> file_covered_lines,
                                         total_lines |-> file_total_lines,
                                         coverage_pct |-> CoveragePct(file_covered_lines,
                                                                      file_total_lines)])]

\* One iteration of the loop over coverage_map: st holds file_tree,
\* total_covered, total_lines, file_data and the paths skipped with a warning.
AggregateEntry(st, file_path, covered_lines, src) ==
    IF ~PathExists(src, file_path) THEN [st EXCEPT !.skipped = @ \cup {file_path}]
    ELSE IF ~ReadOk(src, file_path) THEN [st EXCEPT !.skipped = @ \cup {file_path}]
    ELSE LET source_content == ReadToString(src, file_path)
             file_total_lines == Len(Lines(source_content))
             file_covered_lines == Cardinality(covered_lines)
         IN  [st EXCEPT
                !.total_covered = @ + file_covered_lines,
                !.total_lines = @ + file_total_lines,
                !.file_tree = build_file_tree_entries(file_path, file_covered_lines,
                                                      file_total_lines, @),
                !.file_data = Append(@, [path |-> file_path, source |-> source_content,
                                         covered |-> covered_lines,
                                         covered_count |-> file_covered_lines,
                                         total_lines |-> file_total_lines,
                                         coverage_pct |-> CoveragePct(file_covered_lines,
                                                                      file_total_lines)])]

\* the coverage-summary of the sidebar header
SummaryOf(covered, total) ==
    LET overall_coverage == CoveragePct(covered, total)
    IN  [class |-> get_coverage_class(overall_coverage), pct |-> FormatPct1(overall_coverage),
         covered |-> covered, total |-> total]

\* the ids of the content containers, in the order of file_data
ContainersOf(data) == [i \in 1..Len(data) |-> FileId(data[i].path)]

\* the entry of fileData written for one file, its covered lines in the
\* order the set is iterated in
PayloadOf(d, covered_order) ==
    [id |-> FileId(d.path), path |-> d.path, covered |-> covered_order,
     totalLines |-> d.total_lines, coveredCount |-> d.covered_count,
     coveragePct |-> FormatPct1(d.coverage_pct),
     source |-> LET ls == Lines(d.source) IN [i \in 1..Len(ls) |-> EscapeLiteral(ls[i])]]

\* the orders a HashMap or HashSet of these elements may be iterated in
RECURSIVE Orders(_)
Orders(S) == IF S = {} THEN {<<>>} ELSE UNION {{<<x>> \o o : o \in Orders(S \ {x})} : x \in S}

(***************************************************************************)
(* The inputs of a run                                                     *)
(***************************************************************************)
\* the paths a coverage record of Spec may name: a, b, d/a, e/b, /a, d//a
\* and the empty path
RecPaths ==
    { <<"a">>, <<"b">>, <<"d", "/", "a">>, <<"e", "/", "b">>, <<"/", "a">>,
      <<"d", "/", "/", "a">>, <<>> }

\* the sets of covered lines of one path: the lines MaxLineNo - 1 and
\* MaxLineNo, or the line MaxLineNo alone
CoveredChoices == {{MaxLineNo - 1, MaxLineNo}, {MaxLineNo}}

Records ==
    UNION {[S -> CoveredChoices] : S \in {T \in SUBSET RecPaths : Cardinality(T) <= MaxFiles}}

RECURSIVE SetToSeq(_)
SetToSeq(S) == IF S = {} THEN <<>> ELSE LET x == CHOOSE y \in S : TRUE IN <<x>> \o SetToSeq(S \ {x})

Reverse(seq) == [i \in 1..Len(seq) |-> seq[Len(seq) + 1 - i]]

\* a coverage text for a record: one line path:number for every covered line
TextOf(rec) ==
    LET pairs == SetToSeq({pr \in (DOMAIN rec) \X (1..MaxLineNo) : pr[2] \in rec[pr[1]]})
    IN  [i \in 1..Len(pairs) |-> pairs[i][1] \o <<":", Digits[pairs[i][2] + 1]>>]

File(text) == [readable |-> TRUE, text |-> text]

Unreadable == [readable |-> FALSE, text |-> <<>>]

\* source trees: files a, b, d/a, e/b with no, one, two or three lines, with
\* and without a final newline, unreadable or absent
SourceTrees ==
    { (<<<<"a">>>> :> File(<<"x", "\n", "x">>)) @@ (<<<<"b">>>> :> File(<<>>)) @@
      (<<<<"d">>, <<"a">>>> :> File(<<"x", "\n">>)) @@ (<<<<"e">>, <<"b">>>> :> Unreadable),
      (<<<<"d">>, <<"a">>>> :> File(<<>>)) @@
      (<<<<"e">>, <<"b">>>> :> File(<<"x", "\r", "\n", "x">>)),
      (<<<<"a">>>> :> File(<<"x", "\n">>)) @@
      (<<<<"b">>>> :> File(<<"x", "\n", "x", "\n", "x", "\n">>)) }

(***************************************************************************)
(* generate_report_from_file, as called by main                            *)
(***************************************************************************)
Init ==
    /\ ParseIdle /\ TierIdle /\ EscIdle
    /\ \E rec \in Records : r_text \in {TextOf(rec), Reverse(TextOf(rec))}
    /\ r_src \in SourceTrees
    /\ r_pc = "workdir"
    /\ coverage_map = <<>>
    /\ todo = {}
    /\ agg = EmptyAgg
    /\ r_tree = <<>>
    /\ doc = EmptyDoc
    /\ calls = <<>>
    /\ io_fail = "none"
    /\ result = "none"
    /\ printed = "none"

\* if !Path::new(work_dir).exists() { fs::create_dir_all(work_dir)?; }
CreateWorkDir ==
    /\ r_pc = "workdir"
    /\ \E ok \in BOOLEAN :
         IF ok THEN r_pc' = "parse" /\ UNCHANGED <<io_fail, result>>
         ELSE r_pc' = "returned" /\ io_fail' = "create_dir_all" /\ result' = "err"
    /\ UNCHANGED notRun
    /\ UNCHANGED <<r_text, r_src, coverage_map, todo, agg, r_tree, doc, calls, printed>>

\* let coverage_map = parse_coverage_file(coverage_file)?;
ParseCoverageFile ==
    /\ r_pc = "parse"
    /\ \E ok \in BOOLEAN :
         IF ok
         THEN /\ coverage_map' = ParseCoverage(r_text).map
              /\ todo' = DOMAIN coverage_map'
              /\ r_pc' = "aggregate"
              /\ UNCHANGED <<io_fail, result>>
         ELSE /\ r_pc' = "returned" /\ io_fail' = "coverage_file" /\ result' = "err"
              /\ UNCHANGED <<coverage_map, todo>>
    /\ UNCHANGED notRun
    /\ UNCHANGED <<r_text, r_src, agg, r_tree, doc, calls, printed>>

\* for (file_path, covered_lines) in coverage_map { ... }: one iteration, the
\* map iterated in any order
ProcessEntry ==
    /\ r_pc = "aggregate"
    /\ \E file_path \in todo :
         /\ agg' = AggregateEntry(agg, file_path, coverage_map[file_path], r_src)
         /\ todo' = todo \ {file_path}
    /\ UNCHANGED notRun
    /\ UNCHANGED <<r_text, r_src, r_pc, coverage_map, r_tree, doc, calls, io_fail, result, printed>>

\* File::create(&combined_html_path).expect(...)
CreateOutput ==
    /\ r_pc = "aggregate"
    /\ todo = {}
    /\ \E ok \in BOOLEAN :
         IF ok THEN r_pc' = "head" /\ UNCHANGED <<io_fail, result>>
         ELSE r_pc' = "crashed" /\ io_fail' = "create" /\ result' = "panic"
    /\ UNCHANGED notRun
    /\ UNCHANGED <<r_text, r_src, coverage_map, todo, agg, r_tree, doc, calls, printed>>

\* the head, the opening of the body and of the sidebar, the summary
WriteHead ==
    /\ r_pc = "head"
    /\ doc' = [doc EXCEPT !.summary = SummaryOf(agg.total_covered, agg.total_lines)]
    /\ r_pc' = "tree"
    /\ UNCHANGED notRun
    /\ UNCHANGED <<r_text, r_src, coverage_map, todo, agg, r_tree, calls, io_fail, result, printed>>

\* build_directory_tree(&file_tree, &mut tree), the table iterated in any order
BuildDirectoryTree ==
    /\ r_pc = "tree"
    /\ \E order \in Orders(DOMAIN agg.file_tree) :
         r_tree' = build_directory_tree(agg.file_tree, order)
    /\ r_pc' = "render"
    /\ UNCHANGED notRun
    /\ UNCHANGED <<r_text, r_src, coverage_map, todo, agg, doc, calls, io_fail, result, printed>>

\* render_combined_tree(&tree, "", &mut html_file, 0)
RenderTree ==
    /\ r_pc = "render"
    /\ LET r == render_combined_tree(r_tree, <<>>, 0)
       IN  /\ doc' = [doc EXCEPT !.sidebar = r.items]
           /\ calls' = r.calls
           /\ IF r.overflow
              THEN r_pc' = "crashed" /\ result' = "overflow"
              ELSE r_pc' = "containers" /\ result' = result
    /\ UNCHANGED notRun
    /\ UNCHANGED <<r_text, r_src, coverage_map, todo, agg, r_tree, io_fail, printed>>

\* the content area and one container for every file of file_data
WriteContainers ==
    /\ r_pc = "containers"
    /\ doc' = [doc EXCEPT !.containers = ContainersOf(agg.file_data)]
    /\ r_pc' = "filedata"
    /\ UNCHANGED notRun
    /\ UNCHANGED <<r_text, r_src, coverage_map, todo, agg, r_tree, calls, io_fail, result, printed>>

\* const fileData = { ... }: one entry for every file of file_data, each
\* covered set iterated in any order
WriteFileData ==
    /\ r_pc = "filedata"
    /\ \E orders \in [1..Len(agg.file_data) -> UNION {Orders(d.covered) : d \in Range(agg.file_data)}] :
         /\ \A i \in 1..Len(agg.file_data) : orders[i] \in Orders(agg.file_data[i].covered)
         /\ doc' = [doc EXCEPT !.fileData =
                       [i \in 1..Len(agg.file_data) |-> PayloadOf(agg.file_data[i], orders[i])]]
    /\ r_pc' = "script"
    /\ UNCHANGED notRun
    /\ UNCHANGED <<r_text, r_src, coverage_map, todo, agg, r_tree, calls, io_fail, result, printed>>

\* the functions of the script, the end of the script, of the body and of
\* the document
WriteScript ==
    /\ r_pc = "script"
    /\ doc' = [doc EXCEPT !.closed = TRUE]
    /\ r_pc' = "written"
    /\ UNCHANGED notRun
    /\ UNCHANGED <<r_text, r_src, coverage_map, todo, agg, r_tree, calls, io_fail, result, printed>>

\* write_all(...).expect("Failed to write to HTML file") when the write fails
WriteFails ==
    /\ r_pc \in {"head", "render", "containers", "filedata", "script"}
    /\ r_pc' = "crashed"
    /\ io_fail' = "write"
    /\ result' = "panic"
    /\ UNCHANGED notRun
    /\ UNCHANGED <<r_text, r_src, coverage_map, todo, agg, r_tree, doc, calls, printed>>

\* Ok(html_path)
ReturnOk ==
    /\ r_pc = "written"
    /\ r_pc' = "returned"
    /\ result' = "ok"
    /\ UNCHANGED notRun
    /\ UNCHANGED <<r_text, r_src, coverage_map, todo, agg, r_tree, doc, calls, io_fail, printed>>

\* main: match generate_report_from_file(...) { Ok(_) => ..., Err(e) => ... }
MainReport ==
    /\ r_pc = "returned"
    /\ printed' = IF result = "ok" THEN "success" ELSE "error"
    /\ r_pc' = "exit"
    /\ UNCHANGED notRun
    /\ UNCHANGED <<r_text, r_src, coverage_map, todo, agg, r_tree, doc, calls, io_fail, result>>

Next ==
    \/ CreateWorkDir \/ ParseCoverageFile \/ ProcessEntry \/ CreateOutput \/ WriteHead
    \/ BuildDirectoryTree \/ RenderTree \/ WriteContainers \/ WriteFileData
    \/ WriteScript \/ WriteFails \/ ReturnOk \/ MainReport

Spec == Init /\ [][Next]_vars

(***************************************************************************)
(* What a run is expected to compute, from its inputs alone                *)
(***************************************************************************)
\* the line numbers the coverage text gives for a path
ExpectedCovered(path) ==
    {pr[2] : pr \in {q \in WellFormedPairs(r_text, Len(r_text)) : q[1] = path}}

\* the number of lines of a text: its newlines, and one more for a last line
\* that no newline ends
ExpectedLineCount(text) ==
    Cardinality({i \in 1..Len(text) : text[i] = "\n"})
        + (IF text # <<>> /\ text[Len(text)] # "\n" THEN 1 ELSE 0)

\* the paths of the record whose file is there and can be read
Processed == {p \in DOMAIN coverage_map : ReadOk(r_src, p)}

\* a path and the paths of the directories above it, as keys of the tables
PrefixKeys(path) ==
    {SubSeq(path, 1, k - 1) : k \in {j \in 1..Len(path) : path[j] = "/"}} \cup {path}

RECURSIVE SumSeq(_)
SumSeq(seq) == IF seq = <<>> THEN 0 ELSE Head(seq) + SumSeq(Tail(seq))

\* (covered, total) summed over the file entries of a rendered tree
RECURSIVE LeafCovered(_)
LeafCovered(items) ==
    SumSeq([i \in 1..Len(items) |->
              IF items[i].kind = "file" THEN items[i].covered ELSE LeafCovered(items[i].children)])

RECURSIVE LeafTotal(_)
LeafTotal(items) ==
    SumSeq([i \in 1..Len(items) |->
              IF items[i].kind = "file" THEN items[i].total ELSE LeafTotal(items[i].children)])

RECURSIVE ExpectedFileTree(_, _)
ExpectedFileTree(paths, i) ==
    IF i = 0 THEN <<>>
    ELSE build_file_tree_entries(paths[i], Cardinality(coverage_map[paths[i]]),
                                 Len(Lines(ReadToString(r_src, paths[i]))),
                                 ExpectedFileTree(paths, i - 1))

\* the sidebar of a run that inserts the processed files, and iterates the
\* flat table, in one fixed order
ExpectedSidebar ==
    LET paths == SetToSeq(Processed)
        ft    == ExpectedFileTree(paths, Len(paths))
        tr    == build_directory_tree(ft, SetToSeq(DOMAIN ft))
    IN  render_combined_tree(tr, <<>>, 0).items

AfterRender == {"containers", "filedata", "script", "written", "returned", "exit"}

(***************************************************************************)
(* C2                                                                      *)
(***************************************************************************)
\* C2: every file read is recorded with covered_count = |C|, total_lines = T
\* and coverage_pct = 100 * |C| / T (0 when T = 0), C the line numbers the
\* coverage text gives for the path, in whatever order, T the lines of the
\* file.
C2_AggregationCorrect ==
    \A i \in 1..Len(agg.file_data) :
        LET d == agg.file_data[i]
            C == ExpectedCovered(d.path)
            T == ExpectedLineCount(r_src[Resolve(d.path)].text)
        IN  /\ d.covered_count = Cardinality(C)
            /\ d.total_lines = T
            /\ d.covered = C
            /\ IF T > 0 THEN d.coverage_pct[1] * T = 100 * Cardinality(C) * d.coverage_pct[2]
               ELSE d.coverage_pct[1] = 0
            /\ d.coverage_pct[2] > 0

\* a file of one or more lines recorded with two covered lines, one of them
\* beyond its last line
C2_Witness ==
    \E i \in 1..Len(agg.file_data) :
        LET d == agg.file_data[i]
        IN  /\ d.total_lines > 0
            /\ d.covered_count = 2
            /\ \E n \in d.covered : n[2] > d.total_lines

(***************************************************************************)
(* C3                                                                      *)
(***************************************************************************)
\* nothing in the tables, the tree or the document comes from a skipped path
C3_NoTrace ==
    LET kept == UNION {PrefixKeys(agg.file_data[i].path) : i \in 1..Len(agg.file_data)}
    IN  /\ DOMAIN agg.file_tree = kept
        /\ \A p \in agg.skipped : \A i \in 1..Len(agg.file_data) : agg.file_data[i].path # p
        /\ \A p \in agg.skipped : \A i \in 1..Len(doc.fileData) : doc.fileData[i].path # p
        /\ Len(doc.fileData) \in {0, Len(agg.file_data)}
        /\ Len(doc.containers) \in {0, Len(agg.file_data)}
        /\ \A k \in DOMAIN r_tree : \A i \in 1..Len(r_tree[k]) : r_tree[k][i][1] \in kept

\* the iteration that meets a path whose file is absent or unreadable
\* changes neither table nor total, and the loop goes on
C3_SkipStep ==
    \A p \in todo :
        (todo' = todo \ {p} /\ ~ReadOk(r_src, p)) =>
            /\ agg'.file_tree = agg.file_tree
            /\ agg'.file_data = agg.file_data
            /\ agg'.total_covered = agg.total_covered
            /\ agg'.total_lines = agg.total_lines
            /\ agg'.skipped = agg.skipped \cup {p}
            /\ r_pc' = "aggregate" /\ result' = result /\ io_fail' = io_fail

\* C3: an entry of the record whose file is absent or cannot be read adds
\* nothing to the flat table, the tree and the per-file data, leaves the
\* totals as they are, and does not end the run.
C3_MissingFileSkipped == []C3_NoTrace /\ [][C3_SkipStep]_vars

\* a run that skipped a path, processed another and returned Ok
C3_Witness == result = "ok" /\ agg.skipped # {} /\ Len(agg.file_data) > 0

(***************************************************************************)
(* C4                                                                      *)
(***************************************************************************)
\* the directories of a level, ascending, then its files, ascending, and
\* the same below every directory
RECURSIVE LevelOrdered(_)
LevelOrdered(items) ==
    /\ \A i \in 1..Len(items) - 1 :
          \/ items[i].kind = "dir" /\ items[i + 1].kind = "file"
          \/ items[i].kind = items[i + 1].kind /\ StrLess(items[i].name, items[i + 1].name)
    /\ \A i \in 1..Len(items) : items[i].kind = "dir" => LevelOrdered(items[i].children)

\* C4: whatever the order in which the files were inserted into the flat
\* table and the table was iterated, the rendered tree is the one of a fixed
\* order, and every level lists its directories in ascending order of name,
\* then its files in ascending order of name.
C4_RenderOrderIndependent ==
    r_pc \in AfterRender =>
        /\ doc.sidebar = ExpectedSidebar
        /\ LevelOrdered(doc.sidebar)

\* a rendered level of two directory entries that the child list held in
\* descending order
C4_Witness ==
    /\ r_pc \in AfterRender
    /\ Len(doc.sidebar) = 2
    /\ doc.sidebar[1].kind = "dir" /\ doc.sidebar[2].kind = "dir"
    /\ doc.sidebar[2].children # <<>> /\ doc.sidebar[2].children[1].kind = "file"
    /\ r_tree[<<>>][1][1] = doc.sidebar[2].name

(***************************************************************************)
(* C5                                                                      *)
(***************************************************************************)
\* the numbers of a set of line numbers in ascending order
RECURSIVE Ascending(_)
Ascending(S) ==
    IF S = {} THEN <<>>
    ELSE LET least == CHOOSE n \in S : \A m \in S : n[1] < m[1] \/ (n[1] = m[1] /\ n[2] <= m[2])
         IN  <<least>> \o Ascending(S \ {least})

\* the file data of a run that iterates the coverage map in one fixed order
RECURSIVE ExpectedAgg(_, _)
ExpectedAgg(paths, i) ==
    IF i = 0 THEN EmptyAgg
    ELSE AggregateEntry(ExpectedAgg(paths, i - 1), paths[i], coverage_map[paths[i]], r_src)

\* the document of a run that iterates every map and set in one fixed order
ExpectedDoc ==
    LET paths == SetToSeq(DOMAIN coverage_map)
        ex    == ExpectedAgg(paths, Len(paths))
    IN  [summary |-> SummaryOf(ex.total_covered, ex.total_lines),
         sidebar |-> ExpectedSidebar,
         containers |-> ContainersOf(ex.file_data),
         fileData |-> [i \in 1..Len(ex.file_data) |->
                         PayloadOf(ex.file_data[i], Ascending(ex.file_data[i].covered))],
         closed |-> TRUE]

\* C5: every run on the same coverage text and source tree writes the same
\* document, the containers, the entries of fileData and the numbers of
\* every covered list in the same order.
C5_SameDocumentEveryRun == result = "ok" => doc = ExpectedDoc

(***************************************************************************)
(* C6                                                                      *)
(***************************************************************************)
\* C6: the (total_covered, total_lines) of the header are the sums of
\* (covered_count, total_lines) over the files processed, and the sums of
\* the (covered, total) of the file entries rendered in the tree.
C6_SummaryIsSumOfLeaves ==
    result = "ok" =>
        /\ doc.summary.covered =
              SumSeq([i \in 1..Len(agg.file_data) |-> agg.file_data[i].covered_count])
        /\ doc.summary.total =
              SumSeq([i \in 1..Len(agg.file_data) |-> agg.file_data[i].total_lines])
        /\ doc.summary.covered = LeafCovered(doc.sidebar)
        /\ doc.summary.total = LeafTotal(doc.sidebar)

(***************************************************************************)
(* C7                                                                      *)
(***************************************************************************)
\* C7: a failure to create or to write the document ends
\* generate_report_from_file with an Err, as a failure to create the
\* output directory or to read the coverage file does; the run does not
\* crash, and main prints the error.
C7_OutputFailureIsErr ==
    /\ io_fail # "none" => (result = "err" /\ r_pc \in {"returned", "exit"})
    /\ (io_fail # "none" /\ r_pc = "exit") => printed = "error"

(***************************************************************************)
(* C10                                                                     *)
(***************************************************************************)
\* the paths render_combined_tree is called on, the root first
Visited == <<<<>>>> \o [i \in 1..Len(calls) |-> calls[i][2]]

\* C10: the run ends; the rendering visits no path twice and every
\* recursive call is made on a path longer than the path of its caller.
C10_RenderingTerminates ==
    /\ result # "overflow"
    /\ \A i \in 1..Len(calls) : Len(calls[i][2]) > Len(calls[i][1])
    /\ \A i, j \in 1..Len(Visited) : Visited[i] = Visited[j] => i = j

(***************************************************************************)
(* A source line on its way to the screen: written as a string literal of  *)
(* the script (EscapeLiteral), read by the browser as part of the script   *)
(* element and as a literal, encoded by displaySourceSafely and assigned   *)
(* to innerHTML.  The letters of "script", "#include" and "#define" are    *)
(* kept as one element each; an entity and a span tag are one element.     *)
(***************************************************************************)
LineElements ==
    {"<", ">", "&", "\"", "'", "\\", "/", " ", "\r", "x", "script", "#include", "#define"}

\* format!("\"{}\"", line)
Quoted(literal) == <<"\"">> \o literal \o <<"\"">>

\* The script element opened by <script> ends at the first "</script"
\* followed by white space, '/' or '>', wherever it stands: the position
\* of such an end tag in a text, or 0.
ScriptEndIn(text) ==
    LET at == {i \in 1..Len(text) - 3 :
                 /\ text[i] = "<" /\ text[i + 1] = "/" /\ text[i + 2] = "script"
                 /\ text[i + 3] \in {" ", "/", ">"}}
    IN  IF at = {} THEN 0 ELSE CHOOSE i \in at : \A j \in at : i <= j

\* The script reads a double-quoted literal: a backslash takes the next
\* character with it, a quote ends the literal, a line terminator is an
\* error.  [ok, value, rest]: rest is what follows the closing quote.
RECURSIVE ReadLiteralFrom(_, _)
ReadLiteralFrom(text, acc) ==
    IF text = <<>> THEN [ok |-> FALSE, value |-> acc, rest |-> <<>>]
    ELSE IF Head(text) = "\"" THEN [ok |-> TRUE, value |-> acc, rest |-> Tail(text)]
    ELSE IF Head(text) \in {"\r", "\n"} THEN [ok |-> FALSE, value |-> acc, rest |-> text]
    ELSE IF Head(text) = "\\"
         THEN IF Len(text) < 2 THEN [ok |-> FALSE, value |-> acc, rest |-> <<>>]
              ELSE ReadLiteralFrom(Tail(Tail(text)), Append(acc, text[2]))
    ELSE ReadLiteralFrom(Tail(text), Append(acc, Head(text)))

\* "..." as the script reads it, from the character after the opening quote
ReadLiteral(written) == ReadLiteralFrom(Tail(written), <<>>)

\* the five replace calls of displaySourceSafely
EncodeEntities(text) ==
    ReplaceChar(ReplaceChar(ReplaceChar(ReplaceChar(ReplaceChar(text,
        "&", <<"&amp;">>), "<", <<"&lt;">>), ">", <<"&gt;">>), "\"", <<"&quot;">>), "'", <<"&#39;">>)

Entities == {"&amp;", "&lt;", "&gt;", "&quot;", "&#39;"}

SpanOpen == "<span class=\"include-brackets\">"

SpanClose == "</span>"

\* \s
IsSpace(c) == c \in {" ", "\r", "\n", "\t"}

\* \s* from position i: the first position it does not take
RECURSIVE SkipSpaces(_, _)
SkipSpaces(t, i) == IF i <= Len(t) /\ IsSpace(t[i]) THEN SkipSpaces(t, i + 1) ELSE i

\* [^&]* from position i (no element but an entity holds a '&')
RECURSIVE SkipNoAmp(_, _)
SkipNoAmp(t, i) ==
    IF i <= Len(t) /\ t[i] \notin Entities /\ t[i] # "&" THEN SkipNoAmp(t, i + 1) ELSE i

\* [^&\s]* from position i (the opening span tag holds a space)
RECURSIVE SkipNoAmpNoSpace(_, _)
SkipNoAmpNoSpace(t, i) ==
    IF i <= Len(t) /\ t[i] \notin Entities /\ t[i] # "&" /\ ~IsSpace(t[i]) /\ t[i] # SpanOpen
    THEN SkipNoAmpNoSpace(t, i + 1) ELSE i

\* &lt;([^&]+)&gt; from position i: the position of the &gt;, or 0
BracketsAt(t, i) ==
    LET m == SkipNoAmp(t, i + 1)
    IN  IF i <= Len(t) /\ t[i] = "&lt;" /\ m > i + 1 /\ m <= Len(t) /\ t[m] = "&gt;"
        THEN m ELSE 0

\* '$1<span ...>&lt;</span>$2<span ...>&gt;</span>' for a match from i whose
\* &lt; is at j and &gt; at m
Highlighted(t, i, j, m) ==
    SubSeq(t, i, j - 1) \o <<SpanOpen, "&lt;", SpanClose>> \o SubSeq(t, j + 1, m - 1)
        \o <<SpanOpen, "&gt;", SpanClose>>

\* .replace(/(#\s*include\s*)&lt;([^&]+)&gt;/g, ...)
RECURSIVE ReplaceInclude(_, _)
ReplaceInclude(t, i) ==
    IF i > Len(t) THEN <<>>
    ELSE LET j == SkipSpaces(t, i + 1)
             m == BracketsAt(t, j)
         IN  IF t[i] = "#include" /\ m > 0
             THEN Highlighted(t, i, j, m) \o ReplaceInclude(t, m + 1)
             ELSE <<t[i]>> \o ReplaceInclude(t, i + 1)

\* .replace(/(#\s*define\s*[^&\s]+\s*)&lt;([^&]+)&gt;/g, ...)
RECURSIVE ReplaceDefine(_, _)
ReplaceDefine(t, i) ==
    IF i > Len(t) THEN <<>>
    ELSE LET n == SkipSpaces(t, i + 1)
             w == SkipNoAmpNoSpace(t, n)
             j == SkipSpaces(t, w)
             m == BracketsAt(t, j)
         IN  IF t[i] = "#define" /\ w > n /\ m > 0
             THEN Highlighted(t, i, j, m) \o ReplaceDefine(t, m + 1)
             ELSE <<t[i]>> \o ReplaceDefine(t, i + 1)

\* function displaySourceSafely(text)
displaySourceSafely(text) == ReplaceDefine(ReplaceInclude(EncodeEntities(text), 1), 1)

\* The text an element shows once markup is assigned to its innerHTML: an
\* entity shows its character, a span tag shows nothing.
RECURSIVE DisplayedText(_)
DisplayedText(html) ==
    IF html = <<>> THEN <<>>
    ELSE LET c == Head(html)
             shown == CASE c = "&amp;" -> <<"&">>
                        [] c = "&lt;" -> <<"<">>
                        [] c = "&gt;" -> <<">">>
                        [] c = "&quot;" -> <<"\"">>
                        [] c = "&#39;" -> <<"'">>
                        [] c \in {SpanOpen, SpanClose} -> <<>>
                        [] OTHER -> <<c>>
         IN  shown \o DisplayedText(Tail(html))

\* a '<' or '&' of the markup that is no entity and no span tag: the start
\* of a tag or of a character reference
RawMarkup(html) == \E i \in 1..Len(html) : html[i] \in {"<", "&"}

EscInit ==
    /\ ParseIdle /\ TierIdle /\ RunIdle
    /\ e_line \in SeqsUpTo(LineElements, MaxLineLen)
    /\ e_pc = "source"
    /\ e_literal = <<>>
    /\ e_value = <<>>
    /\ e_html = <<>>
    /\ e_shown = <<>>

\* the generator writes the line as an element of source: [ ... ]
EmbedLine ==
    /\ e_pc = "source"
    /\ e_literal' = EscapeLiteral(e_line)
    /\ e_pc' = "embedded"
    /\ UNCHANGED notEsc
    /\ UNCHANGED <<e_line, e_value, e_html, e_shown>>

\* the browser finds the end of the script element
ParseScriptElement ==
    /\ e_pc = "embedded"
    /\ e_pc' = IF ScriptEndIn(Quoted(e_literal)) > 0 THEN "broken" ELSE "parsed"
    /\ UNCHANGED notEsc
    /\ UNCHANGED <<e_line, e_literal, e_value, e_html, e_shown>>

\* the script is compiled: the literal becomes data.source[i]
EvaluateLiteral ==
    /\ e_pc = "parsed"
    /\ LET r == ReadLiteral(Quoted(e_literal))
       IN  IF r.ok /\ r.rest = <<>>
           THEN e_value' = r.value /\ e_pc' = "read"
           ELSE e_value' = e_value /\ e_pc' = "broken"
    /\ UNCHANGED notEsc
    /\ UNCHANGED <<e_line, e_literal, e_html, e_shown>>

\* showFile: displaySourceSafely(data.source[i])
EncodeForDisplay ==
    /\ e_pc = "read"
    /\ e_html' = displaySourceSafely(e_value)
    /\ e_pc' = "encoded"
    /\ UNCHANGED notEsc
    /\ UNCHANGED <<e_line, e_literal, e_value, e_shown>>

\* showFile: lineContentSpan.innerHTML = ...
AssignInnerHtml ==
    /\ e_pc = "encoded"
    /\ e_shown' = DisplayedText(e_html)
    /\ e_pc' = IF RawMarkup(e_html) THEN "broken" ELSE "shown"
    /\ UNCHANGED notEsc
    /\ UNCHANGED <<e_line, e_literal, e_value, e_html>>

EscNext == EmbedLine \/ ParseScriptElement \/ EvaluateLiteral \/ EncodeForDisplay \/ AssignInnerHtml

SpecEscape == EscInit /\ [][EscNext]_vars

(***************************************************************************)
(* C9                                                                      *)
(***************************************************************************)
\* C9: whatever a source line holds, no character of it ends the script
\* element or the literal or opens markup, and the line-content element
\* shows the line character for character.
C9_LineShownLiterally ==
    /\ e_pc # "broken"
    /\ e_pc = "shown" => e_shown = e_line

(***************************************************************************)
(* C11                                                                     *)
(***************************************************************************)
\* the entries of a rendered tree, each as <<kind, path>>, the path of an
\* entry being the path of the level it stands in, '/' and its name
RECURSIVE RenderedEntries(_, _)
RenderedEntries(items, current_path) ==
    UNION {LET path == ChildPath(current_path, items[i].name)
           IN  {<<items[i].kind, path>>} \cup
               (IF items[i].kind = "dir" THEN RenderedEntries(items[i].children, path) ELSE {})
           : i \in 1..Len(items)}

\* the paths of the files that were processed
FilePaths == {agg.file_data[i].path : i \in 1..Len(agg.file_data)}

\* C11: in a rendered tree every processed file, whatever its (covered,
\* total), is a file leaf, and an entry rendered as a directory has (0, 0)
\* and is no processed file.
C11_DirectoryOnlyIfNeverAFile ==
    r_pc \in AfterRender =>
        LET shown == RenderedEntries(doc.sidebar, <<>>)
        IN  /\ \A p \in FilePaths : <<"file", p>> \in shown
            /\ \A e \in shown :
                  e[1] = "dir" => (e[2] \notin FilePaths /\ agg.file_tree[e[2]] = <<0, 0>>)

(***************************************************************************)
(* Runs on paths that differ only in '/', '.' and '_'                      *)
(***************************************************************************)
\* the paths a coverage record of SpecIds may name: a, d/a, d_a and d.a
IdPaths == { <<"a">>, <<"d", "/", "a">>, <<"d", "_", "a">>, <<"d", ".", "a">> }

IdRecords ==
    UNION {[S -> CoveredChoices] : S \in {T \in SUBSET IdPaths : Cardinality(T) <= MaxFiles}}

\* source trees: a of one line, d/a of two lines, d_a of three lines; d.a
\* of one line or absent
IdSourceTrees ==
    { (<<<<"a">>>> :> File(<<"x", "\n">>)) @@
      (<<<<"d">>, <<"a">>>> :> File(<<"x", "\n", "x", "\n">>)) @@
      (<<<<"d", "_", "a">>>> :> File(<<"x", "\n", "x", "\n", "x", "\n">>)),
      (<<<<"d">>, <<"a">>>> :> File(<<"x", "\n", "x", "\n">>)) @@
      (<<<<"d", ".", "a">>>> :> File(<<"x", "\n">>)) }

InitIds ==
    /\ ParseIdle /\ TierIdle /\ EscIdle
    /\ \E rec \in IdRecords : r_text \in {TextOf(rec), Reverse(TextOf(rec))}
    /\ r_src \in IdSourceTrees
    /\ r_pc = "workdir"
    /\ coverage_map = <<>>
    /\ todo = {}
    /\ agg = EmptyAgg
    /\ r_tree = <<>>
    /\ doc = EmptyDoc
    /\ calls = <<>>
    /\ io_fail = "none"
    /\ result = "none"
    /\ printed = "none"

SpecIds == InitIds /\ [][Next]_vars

(***************************************************************************)
(* C12                                                                     *)
(***************************************************************************)
\* the file leaves of a rendered tree, each as <<path, id>>
RECURSIVE RenderedLeaves(_, _)
RenderedLeaves(items, current_path) ==
    UNION {LET path == ChildPath(current_path, items[i].name)
           IN  IF items[i].kind = "dir" THEN RenderedLeaves(items[i].children, path)
               ELSE {<<path, items[i].id>>}
           : i \in 1..Len(items)}

\* C12: in a written document the identifier of every file leaf of the tree
\* is the key of exactly one entry of fileData and of exactly one container,
\* that entry holds the path of the leaf, and no two processed paths have
\* the same identifier.
C12_IdentifierCorrelates ==
    doc.closed =>
        /\ \A leaf \in RenderedLeaves(doc.sidebar, <<>>) :
              LET entries == {i \in 1..Len(doc.fileData) : doc.fileData[i].id = leaf[2]}
                  boxes   == {i \in 1..Len(doc.containers) : doc.containers[i] = leaf[2]}
              IN  /\ Cardinality(entries) = 1
                  /\ Cardinality(boxes) = 1
                  /\ \A i \in entries : doc.fileData[i].path = leaf[1]
        /\ \A p, q \in FilePaths : FileId(p) = FileId(q) => p = q

(***************************************************************************)
(* C13                                                                     *)
(***************************************************************************)
\* a path without its last segment and the separator before it; the empty
\* path for a path of one segment
ParentPath(path) ==
    IF \A i \in 1..Len(path) : path[i] # "/" THEN <<>>
    ELSE LET k == CHOOSE i \in 1..Len(path) :
                      path[i] = "/" /\ \A j \in (i + 1)..Len(path) : path[j] # "/"
         IN  SubSeq(path, 1, k - 1)

\* where a path stands in the child lists of the tree: <<key, index>>
PlacesOf(path) ==
    {ki \in (DOMAIN r_tree) \X (1..Cardinality(DOMAIN agg.file_tree)) :
        ki[2] <= Len(r_tree[ki[1]]) /\ r_tree[ki[1]][ki[2]][1] = path}

\* the paths met by following child lists from the keys in from, n times
RECURSIVE ReachableIn(_, _)
ReachableIn(from, n) ==
    IF n = 0 THEN from
    ELSE ReachableIn(from \cup {r_tree[k][i][1] :
                                  <<k, i>> \in {ki \in (from \cap DOMAIN r_tree) \X (1..Cardinality(DOMAIN agg.file_tree)) :
                                                  ki[2] <= Len(r_tree[ki[1]])}},
                     n - 1)

\* build_directory_tree has run
TreeBuilt == r_pc \in ({"render"} \cup AfterRender) \/ result = "overflow"

\* C13: once the tree is built, every entry of the flat table stands exactly
\* once in the child lists, in the list of its path without the last
\* segment and with its own figures; the lists hold nothing else; every
\* non-empty key of the tree is an entry of the flat table; and every entry
\* is reached from the root through the child lists.
C13_TreeHoldsEveryEntryOnce ==
    TreeBuilt =>
        /\ \A p \in DOMAIN agg.file_tree :
              /\ Cardinality(PlacesOf(p)) = 1
              /\ \A ki \in PlacesOf(p) :
                    /\ ki[1] = ParentPath(p)
                    /\ r_tree[ki[1]][ki[2]] = <<p, agg.file_tree[p][1], agg.file_tree[p][2]>>
        /\ \A k \in DOMAIN r_tree : \A i \in 1..Len(r_tree[k]) :
              r_tree[k][i][1] \in DOMAIN agg.file_tree
        /\ \A k \in DOMAIN r_tree : k # <<>> => k \in DOMAIN agg.file_tree
        /\ DOMAIN agg.file_tree \subseteq
              ReachableIn({<<>>}, Cardinality(DOMAIN agg.file_tree))

\* a tree built for a path with an empty segment: a directory with two
\* children, one of them the directory of the empty name
C13_Witness ==
    /\ r_pc = "render"
    /\ \E k \in DOMAIN r_tree :
          /\ k # <<>>
          /\ Len(r_tree[k]) = 2
          /\ \E i \in 1..2 : r_tree[k][i][1] = Append(k, "/")

====
